---- MODULE Spec2Model ----
(***************************************************************************)
(* Model of the agent coordinator of StockIQ                               *)
(* (src/src/services/agent_coordinator.py, src/src/models/collaboration.py)*)
(*                                                                         *)
(* The three dictionaries of AgentCoordinator are functions whose DOMAIN   *)
(* is the set of keys present.  Every workflow task created by             *)
(* asyncio.create_task is a record of `tasks`; an action is one            *)
(* uninterrupted synchronous stretch of a coroutine, from one suspension   *)
(* point to the next.  A coroutine suspends in asyncio.sleep only: in the   *)
(* sleep of _mock_agent_execution, which executes the agents that have no  *)
(* implementation, and in the backoff sleep of handle_agent_failure.  The  *)
(* execution of an agent that has an implementation does not suspend       *)
(* (ValuationAgent.conduct_research awaits only coroutines that call the   *)
(* synchronous client), so it is part of the step that starts it.          *)
(* Strings whose content is irrelevant are represented by their length.    *)
(***************************************************************************)
EXTENDS Integers, Sequences, FiniteSets, TLC

VARIABLES
    active_sessions,     \* dict session_id -> ResearchStatus
    session_handoffs,    \* dict session_id -> list of AgentHandoff
    agent_retry_counts,  \* dict session_id -> dict agent_name -> int
    max_retries,         \* AgentCoordinator.max_retries
    tasks,               \* the workflow tasks created by start_research_process
    last                 \* the call made by the last step and what it returned

vars == <<active_sessions, session_handoffs, agent_retry_counts, max_retries, tasks, last>>

----------------------------------------------------------------------------
(* Bounds of the model *)

MaxBudget == 2           \* largest retry budget explored

(* One session id, started at most twice: the task of the first call and   *)
(* the task of a second call for the same id, before or after a cleanup.   *)
Sessions == {"s1"}
TaskIds == {1, 2}
Tickers == {"AAPL", "LONG"}
ExpertiseLevels == {8}
(* what an agent execution does: it returns a successful result ("ok"), a  *)
(* failed result with an error_message ("fail") or without one             *)
(* ("fail_silent"), or it raises an exception ("raise")                    *)
Outcomes == {"ok", "fail", "fail_silent", "raise"}
(* the outcomes explored where two tasks interleave: a failed result       *)
(* without error_message differs from one with a message in the text       *)
(* stored only                                                             *)
MessageOutcomes == {"ok", "fail", "raise"}

(* the arguments of direct handle_agent_failure calls *)
DirectErrors == {"Test error"}

(* the arguments of direct coordinate_agent_handoff calls; HandoffAgents   *)
(* are also the agents of direct handle_agent_failure calls                *)
MaxHandoffList == 2
HandoffAgents == {"valuation_agent", "strategic_agent"}
FileCounts == {0, 1}
Summaries == { [len |-> 50, pad |-> 0], [len |-> 100, pad |-> 0], [len |-> 101, pad |-> 0],
               [len |-> 150, pad |-> 60], [len |-> 5000, pad |-> 0], [len |-> 5001, pad |-> 0] }
(* confidence_metrics by what json makes of its values: numbers, as in the *)
(* unit tests and the workflow, or an object json cannot serialise         *)
ConfidenceMetrics == {"floats", "object"}
HandoffData == [research_files : FileCounts, context_summary : Summaries,
                confidence_metrics : ConfidenceMetrics, token_usage : {0}]

(* Length of a ticker string: "AAPL", and a ticker long enough to push the  *)
(* generated context summary over the 5000 character limit.                 *)
LongTickerLen == 4690
StrLen(ticker) == IF ticker = "AAPL" THEN 4 ELSE LongTickerLen

----------------------------------------------------------------------------
(* Constants of the program *)

agent_order == <<"valuation_agent", "strategic_agent", "historian_agent", "synthesis_agent">>
Agents == {agent_order[k] : k \in 1..Len(agent_order)}
critical_agents == {"valuation_agent", "strategic_agent", "historian_agent", "synthesis_agent"}

None == "None"

(* AgentCoordinator.agents: the agents that have an implementation; the    *)
(* others are executed by _mock_agent_execution                            *)
real_agents == {"valuation_agent"}

(* the expertise level _retry_agent passes to the re-execution *)
retry_expertise_level == 5

(* AgentResult.error_message of a failed result; for an exception raised   *)
(* inside _execute_real_agent, str(e)                                      *)
exception_text == "exception"
error_message_of(outcome) ==
    IF outcome = "fail" THEN "boom"
    ELSE IF outcome = "raise" THEN exception_text
    ELSE None

(* Exception(result.error_message or "Agent execution failed"), as text *)
failure_error(outcome) ==
    IF error_message_of(outcome) = None THEN "Agent execution failed"
    ELSE error_message_of(outcome)

MaxSummaryLength == 5000
MinSummaryLength == 100
SummaryTemplateLen == 281

----------------------------------------------------------------------------
(* Dictionary helpers *)

Has(d, k) == k \in DOMAIN d
Put(d, k, v) == [x \in (DOMAIN d) \cup {k} |-> IF x = k THEN v ELSE d[x]]
Del(d, k) == [x \in (DOMAIN d) \ {k} |-> d[x]]
EmptyDict == [x \in {} |-> 0]

Contains(seq, e) == \E k \in 1..Len(seq) : seq[k] = e

(* list.remove(e): removes the first occurrence *)
RECURSIVE Remove(_, _)
Remove(seq, e) ==
    IF seq = <<>> THEN <<>>
    ELSE IF Head(seq) = e THEN Tail(seq)
    ELSE <<Head(seq)>> \o Remove(Tail(seq), e)

(* The coordinator's three dictionaries as one value *)
Store == [as |-> active_sessions, sh |-> session_handoffs, rc |-> agent_retry_counts]

----------------------------------------------------------------------------
(* models/collaboration.py *)

(* a ResearchStatus keeping the default status "pending" *)
ResearchStatus_pending(oid, ticker, status, current_agent) ==
    [ oid                 |-> oid,
      ticker              |-> ticker,
      current_agent       |-> current_agent,
      agents_completed    |-> <<>>,
      agents_failed       |-> <<>>,
      progress_percentage |-> 0,
      status              |-> "pending",
      error_message       |-> <<>>,
      completed_at        |-> "None" ]

(* ResearchStatus(session_id, ticker, status="active", current_agent=...)  *)
(* oid is the identity of the Python object: a coroutine that keeps a      *)
(* reference to a status object replaced in the dictionary mutates the old *)
(* object, not the entry.                                                  *)
ResearchStatus(oid, ticker, status, current_agent) ==
    [ oid                 |-> oid,
      ticker              |-> ticker,
      current_agent       |-> current_agent,
      agents_completed    |-> <<>>,
      agents_failed       |-> <<>>,
      progress_percentage |-> 0,
      status              |-> status,
      error_message       |-> <<>>,
      completed_at        |-> None ]

(* A string by its length and by the number of leading and trailing        *)
(* whitespace characters that strip() removes.                             *)
StripLen(text) == text.len - text.pad

(* validate_handoff_integrity measuring the summary without strip() *)
validate_handoff_integrity_unstripped(h) ==
    /\ h.research_files > 0
    /\ h.context_summary.len > MinSummaryLength
    /\ h.source_agent # h.target_agent

(* AgentHandoff.validate_handoff_integrity *)
validate_handoff_integrity(h) ==
    /\ h.research_files > 0
    /\ StripLen(h.context_summary) > MinSummaryLength
    /\ h.source_agent # h.target_agent

(* AgentHandoff(...): pydantic rejects a context_summary over max_length *)
AgentHandoffConstructs(data) == data.context_summary.len <= MaxSummaryLength

AgentHandoff(source_agent, target_agent, data) ==
    [ source_agent       |-> source_agent,
      target_agent       |-> target_agent,
      research_files     |-> data.research_files,
      context_summary    |-> data.context_summary,
      confidence_metrics |-> data.confidence_metrics,
      token_usage        |-> data.token_usage ]

(* handoff.model_dump_json(): confidence_metrics is a dict[str, Any], and   *)
(* a value that json cannot serialise (an arbitrary object) makes it raise *)
model_dump_json_raises(handoff) == handoff.confidence_metrics = "object"

----------------------------------------------------------------------------
(* AgentCoordinator.coordinate_agent_handoff: the new dictionaries and the *)
(* value returned.  The handoff is serialised after the record was stored  *)
(* and the status updated; if that raises, the except returns False and    *)
(* what was stored stays.                                                  *)

ProgressOf(completed) == (Len(completed) * 100) \div Len(agent_order)

coordinate_agent_handoff(st, session_id, source_agent, target_agent, data) ==
    LET handoff == AgentHandoff(source_agent, target_agent, data) IN
    IF ~AgentHandoffConstructs(data) THEN [st |-> st, ret |-> FALSE]
    ELSE IF ~validate_handoff_integrity(handoff) THEN [st |-> st, ret |-> FALSE]
    ELSE
        LET old == IF Has(st.sh, session_id) THEN st.sh[session_id] ELSE <<>>
            sh2 == Put(st.sh, session_id, Append(old, handoff))
            as2 == IF Has(st.as, session_id)
                   THEN LET status == st.as[session_id]
                            completed == IF Contains(status.agents_completed, source_agent)
                                         THEN status.agents_completed
                                         ELSE Append(status.agents_completed, source_agent)
                        IN Put(st.as, session_id,
                               [status EXCEPT !.agents_completed = completed,
                                              !.current_agent = target_agent,
                                              !.progress_percentage = ProgressOf(completed)])
                   ELSE st.as
        IN [st |-> [st EXCEPT !.as = as2, !.sh = sh2],
            ret |-> ~model_dump_json_raises(handoff)]

----------------------------------------------------------------------------
(* The workflow task of one start_research_process call.                   *)
(* pc: "idle" (not created), "scheduled" (created, not yet run), "exec"    *)
(* (suspended in the mock execution awaited by the loop), "sleep" (in the  *)
(* backoff sleep of handle_agent_failure), "retry" (suspended in the mock  *)
(* execution awaited by _retry_agent), "running" (inside the execution of  *)
(* an agent with an implementation that has not returned: the thread of    *)
(* the event loop is inside this step), "done".  i is the loop index       *)
(* (1-based), retry_count and status_oid are the locals retry_count and    *)
(* status of the innermost handle_agent_failure frame, error is the text   *)
(* of its argument error, retries_run counts the re-executions made for    *)
(* the agent at i, delay is the argument of the backoff sleep the task is  *)
(* in.  abandoned records that cleanup_session removed the session while   *)
(* the task was suspended in an agent execution or in the backoff sleep (a *)
(* history of the run: the code keeps no such flag).                       *)

IdleTask ==
    [ pc |-> "idle", session_id |-> None, ticker |-> None, expertise_level |-> 0,
      i |-> 0, retry_count |-> 0, status_oid |-> 0, retries_run |-> 0,
      delay |-> 0, error |-> None, abandoned |-> FALSE ]

NoCall == "none"

(* a task that returned keeps nothing but its session id *)
Suspended == {"exec", "sleep", "retry"}
Finished(task) == [IdleTask EXCEPT !.pc = "done", !.session_id = task.session_id]

(* What one step reports: the dictionaries, the task, the value returned   *)
(* by coordinate_agent_handoff and by handle_agent_failure if the step     *)
(* called them ("pending": suspended in the backoff sleep), and the agent  *)
(* whose execution the step started.                                       *)
Outcome(st, task, handoff_ret, haf_ret, started) ==
    [ st |-> st, task |-> task, handoff_ret |-> handoff_ret, haf_ret |-> haf_ret,
      started |-> started ]

BoolStr(b) == IF b THEN "true" ELSE "false"

(* _execute_research_workflow, one loop iteration up to the call of the    *)
(* agent's execution *)
loop_iteration(st, task, i, handoff_ret, haf_ret) ==
    IF ~Has(st.as, task.session_id)
    THEN Outcome(st, Finished(task), handoff_ret, haf_ret, None)
    ELSE LET status == st.as[task.session_id]
             as2 == Put(st.as, task.session_id,
                        [status EXCEPT !.current_agent = agent_order[i]])
         IN Outcome([st EXCEPT !.as = as2],
                    [task EXCEPT !.pc = "exec", !.i = i, !.retry_count = 0,
                                 !.status_oid = 0, !.retries_run = 0, !.delay = 0,
                                 !.error = None],
                    handoff_ret, haf_ret, agent_order[i])

(* the mock handoff data the workflow builds for agent_name -> next_agent *)
handoff_data(agent_name, next_agent, ticker) ==
    [ research_files  |-> 1,
      context_summary |-> [ len |-> SummaryTemplateLen + Len(agent_name) + StrLen(ticker)
                                    + Len(next_agent),
                            pad |-> 0 ],
      confidence_metrics |-> "floats",
      token_usage     |-> 1500 ]

(* the completion leaving progress_percentage as the last handoff set it *)
mark_completed_keeps_progress(st, session_id) ==
    IF Has(st.as, session_id)
    THEN [st EXCEPT !.as = Put(st.as, session_id,
              [st.as[session_id] EXCEPT !.status = "completed",
                                        !.current_agent = None,
                                        !.completed_at = "set"])]
    ELSE st

(* the completion leaving current_agent at the last agent *)
mark_completed_keeps_agent(st, session_id) ==
    IF Has(st.as, session_id)
    THEN [st EXCEPT !.as = Put(st.as, session_id,
              [st.as[session_id] EXCEPT !.status = "completed",
                                        !.progress_percentage = 100,
                                        !.completed_at = "set"])]
    ELSE st

(* the completion adding the last agent to agents_completed *)
mark_completed_appends_last(st, session_id) ==
    IF Has(st.as, session_id)
    THEN [st EXCEPT !.as = Put(st.as, session_id,
              [st.as[session_id] EXCEPT
                  !.status = "completed",
                  !.current_agent = None,
                  !.agents_completed = Append(st.as[session_id].agents_completed,
                                              agent_order[Len(agent_order)]),
                  !.progress_percentage = 100,
                  !.completed_at = "set"])]
    ELSE st

(* _execute_research_workflow, "Mark research as completed" *)
mark_completed(st, session_id) ==
    IF Has(st.as, session_id)
    THEN [st EXCEPT !.as = Put(st.as, session_id,
              [st.as[session_id] EXCEPT !.status = "completed",
                                        !.current_agent = None,
                                        !.progress_percentage = 100,
                                        !.completed_at = "set"])]
    ELSE st

(* _execute_research_workflow after the agent at task.i succeeded or was   *)
(* recovered: the handoff to the next agent and the next iteration, or the *)
(* completion after the last agent.  The value returned by                 *)
(* coordinate_agent_handoff is not looked at.                              *)
after_agent(st, task, haf_ret) ==
    IF task.i < Len(agent_order)
    THEN LET r == coordinate_agent_handoff(st, task.session_id, agent_order[task.i],
                      agent_order[task.i + 1],
                      handoff_data(agent_order[task.i], agent_order[task.i + 1], task.ticker))
         IN loop_iteration(r.st, task, task.i + 1, BoolStr(r.ret), haf_ret)
    ELSE Outcome(mark_completed(st, task.session_id), Finished(task),
                 NoCall, haf_ret, None)

(* handle_agent_failure, "No more retries - mark as failed", through the   *)
(* local reference status: nothing of the dictionary changes when that     *)
(* object is no longer the entry of the session.                           *)
(* error_message is "Critical agent {agent_name} failed after              *)
(* {max_retries} retries: {str(error)}"                                    *)
error_text(agent_name, error) == <<"Critical agent", agent_name, max_retries, error>>

(* the exhausted agent recorded in agents_failed with the status left as   *)
(* it was                                                                  *)
mark_failed_keeps_status(st, session_id, oid, agent_name, error) ==
    IF Has(st.as, session_id) /\ st.as[session_id].oid = oid
    THEN LET status == st.as[session_id]
             failed == IF Contains(status.agents_failed, agent_name)
                       THEN status.agents_failed
                       ELSE Append(status.agents_failed, agent_name)
         IN [st EXCEPT !.as = Put(st.as, session_id,
                                  [status EXCEPT !.agents_failed = failed])]
    ELSE st

mark_failed(st, session_id, oid, agent_name, error) ==
    IF Has(st.as, session_id) /\ st.as[session_id].oid = oid
    THEN LET status == st.as[session_id]
             failed == IF Contains(status.agents_failed, agent_name)
                       THEN status.agents_failed
                       ELSE Append(status.agents_failed, agent_name)
         IN [st EXCEPT !.as = Put(st.as, session_id,
                IF agent_name \in critical_agents
                THEN [status EXCEPT !.agents_failed = failed,
                                    !.status = "failed",
                                    !.error_message = error_text(agent_name, error)]
                ELSE [status EXCEPT !.agents_failed = failed])]
    ELSE st

(* the workflow going on to the next agent after a recovery without the   *)
(* handoff of the recovered agent                                          *)
failure_returned_skips_handoff(st, task, failure_handled) ==
    IF failure_handled
    THEN IF task.i < Len(agent_order)
         THEN loop_iteration(st, task, task.i + 1, NoCall, "true")
         ELSE Outcome(mark_completed(st, task.session_id), Finished(task), NoCall, "true", None)
    ELSE Outcome(st, Finished(task), NoCall, "false", None)

(* the workflow going on with the handoff whatever handle_agent_failure    *)
(* returned                                                                *)
failure_returned_ignores_failure(st, task, failure_handled) ==
    after_agent(st, task, BoolStr(failure_handled))

(* the workflow after handle_agent_failure returned failure_handled *)
failure_returned(st, task, failure_handled) ==
    IF failure_handled
    THEN after_agent(st, task, "true")
    ELSE Outcome(st, Finished(task), NoCall, "false", None)

(* a backoff growing by one second with each retry *)
backoff_delay_linear(retry_count) == retry_count

(* handle_agent_failure, the delay of the backoff sleep before the retry   *)
(* that makes the counter retry_count: 2 ** (retry_count - 1)              *)
backoff_delay(retry_count) == 2 ^ (retry_count - 1)

(* handle_agent_failure retrying while retry_count <= max_retries *)
handle_agent_failure_extra_retry(st, task) ==
    LET session_id == task.session_id
        agent_name == agent_order[task.i]
    IN
    IF ~Has(st.as, session_id) THEN failure_returned(st, task, FALSE)
    ELSE
        LET per == IF Has(st.rc, session_id) THEN st.rc[session_id] ELSE EmptyDict
            counts == IF Has(per, agent_name) THEN per ELSE Put(per, agent_name, 0)
            retry_count == counts[agent_name]
            status == st.as[session_id]
        IN
        IF retry_count <= max_retries
        THEN Outcome([st EXCEPT !.rc = Put(st.rc, session_id,
                                           Put(counts, agent_name, retry_count + 1))],
                     [task EXCEPT !.pc = "sleep", !.retry_count = retry_count + 1,
                                  !.status_oid = status.oid,
                                  !.delay = backoff_delay(retry_count + 1)],
                     NoCall, "pending", None)
        ELSE failure_returned(
                 mark_failed([st EXCEPT !.rc = Put(st.rc, session_id, counts)],
                             session_id, status.oid, agent_name, task.error),
                 task, agent_name \notin critical_agents)

(* handle_agent_failure(session_id, agent_name, error) from its entry to   *)
(* the backoff sleep or its return; task.error is the text of error        *)
handle_agent_failure(st, task) ==
    LET session_id == task.session_id
        agent_name == agent_order[task.i]
    IN
    IF ~Has(st.as, session_id) THEN failure_returned(st, task, FALSE)
    ELSE
        LET per == IF Has(st.rc, session_id) THEN st.rc[session_id] ELSE EmptyDict
            counts == IF Has(per, agent_name) THEN per ELSE Put(per, agent_name, 0)
            retry_count == counts[agent_name]
            status == st.as[session_id]
        IN
        IF retry_count < max_retries
        THEN Outcome([st EXCEPT !.rc = Put(st.rc, session_id,
                                           Put(counts, agent_name, retry_count + 1))],
                     [task EXCEPT !.pc = "sleep", !.retry_count = retry_count + 1,
                                  !.status_oid = status.oid,
                                  !.delay = backoff_delay(retry_count + 1)],
                     NoCall, "pending", None)
        ELSE failure_returned(
                 mark_failed([st EXCEPT !.rc = Put(st.rc, session_id, counts)],
                             session_id, status.oid, agent_name, task.error),
                 task, agent_name \notin critical_agents)

(* handle_agent_failure after _retry_agent returned False *)
retry_failed(st, task) ==
    IF task.retry_count < max_retries
    THEN handle_agent_failure(st, task)
    ELSE failure_returned(
             mark_failed(st, task.session_id, task.status_oid, agent_order[task.i],
                         task.error),
             task, agent_order[task.i] \notin critical_agents)

(* handle_agent_failure after _retry_agent returned True *)
retry_succeeded(st, task) ==
    LET session_id == task.session_id
        agent_name == agent_order[task.i]
        st2 == IF Has(st.as, session_id) /\ st.as[session_id].oid = task.status_oid
               THEN [st EXCEPT !.as = Put(st.as, session_id,
                        [st.as[session_id] EXCEPT
                            !.agents_failed = Remove(st.as[session_id].agents_failed, agent_name)])]
               ELSE st
    IN failure_returned(st2, task, TRUE)

(* the outermost except marking the session failed and the loop going on   *)
(* with the next agent                                                     *)
workflow_exception_goes_on(st, task) ==
    LET st2 == IF Has(st.as, task.session_id)
               THEN [st EXCEPT !.as = Put(st.as, task.session_id,
                        [st.as[task.session_id] EXCEPT !.status = "failed",
                                                       !.error_message = <<exception_text>>])]
               ELSE st
    IN IF task.i < Len(agent_order)
       THEN loop_iteration(st2, task, task.i + 1, NoCall, NoCall)
       ELSE Outcome(st2, Finished(task), NoCall, NoCall, None)

(* _execute_research_workflow, the outermost except: error_message is     *)
(* str(e)                                                                  *)
workflow_exception(st, task) ==
    LET st2 == IF Has(st.as, task.session_id)
               THEN [st EXCEPT !.as = Put(st.as, task.session_id,
                        [st.as[task.session_id] EXCEPT !.status = "failed",
                                                       !.error_message = <<exception_text>>])]
               ELSE st
    IN Outcome(st2, Finished(task), NoCall, NoCall, None)

(* _execute_research_workflow after the execution of the agent at task.i   *)
(* returned or raised.  _execute_real_agent turns an exception of an agent *)
(* with an implementation into a failed result whose error_message is      *)
(* str(e); an exception of _mock_agent_execution reaches the outermost     *)
(* except.                                                                 *)
agent_result(st, task, outcome) ==
    CASE outcome = "ok" -> after_agent(st, task, NoCall)
      [] outcome = "raise" /\ agent_order[task.i] \notin real_agents ->
             workflow_exception(st, task)
      [] OTHER -> handle_agent_failure(st, [task EXCEPT !.error = failure_error(outcome)])

(* handle_agent_failure after _retry_agent returned: result.success, and    *)
(* False when the execution raised                                         *)
retry_result(st, task, outcome) ==
    IF outcome = "ok" THEN retry_succeeded(st, task) ELSE retry_failed(st, task)

(* the execution of an agent with an implementation has not returned *)
Hang == "hang"
hanging(st, task, haf_ret) ==
    Outcome(st, [task EXCEPT !.pc = "running"], NoCall, haf_ret, None)

----------------------------------------------------------------------------
(* Actions *)

(* _build_agent_context: the keys of previous_research, one per source     *)
(* agent of the handoffs recorded for the session                          *)
build_agent_context(st, session_id) ==
    IF Has(st.sh, session_id)
    THEN {st.sh[session_id][k].source_agent : k \in 1..Len(st.sh[session_id])}
    ELSE {}

(* get_research_status: the fields of the status, or the not-found marker *)
NotFound == "Session not found"

get_research_status(session_id) ==
    IF ~Has(active_sessions, session_id)
    THEN [error |-> NotFound, session_id |-> session_id]
    ELSE LET status == active_sessions[session_id] IN
         [ session_id          |-> session_id,
           ticker              |-> status.ticker,
           current_agent       |-> status.current_agent,
           agents_completed    |-> status.agents_completed,
           agents_failed       |-> status.agents_failed,
           progress_percentage |-> status.progress_percentage,
           status              |-> status.status,
           error_message       |-> status.error_message,
           completed_at        |-> status.completed_at ]

(* the (session_id, ticker, expertise_level) an execution is called with:  *)
(* the loop passes its own arguments, _retry_agent passes the ticker of    *)
(* the session's status and its fixed expertise level                      *)
execution_inputs(op, st, task) ==
    IF op = "retry_agent"
    THEN <<task.session_id, st.as[task.session_id].ticker, retry_expertise_level>>
    ELSE <<task.session_id, task.ticker, task.expertise_level>>

(* get_session_handoffs: the records of the session, [] when it has none *)
get_session_handoffs(session_id) ==
    IF Has(session_handoffs, session_id) THEN session_handoffs[session_id] ELSE <<>>

(* the execution of an agent with an implementation made inside a step:    *)
(* the agent, the arguments of conduct_research and the keys of the        *)
(* context _execute_real_agent built for it from the dictionaries as they  *)
(* are when the execution is called                                        *)
NoRun == [agent |-> None, inputs |-> <<>>, context |-> {}]
Ran(op, st, task) ==
    [ agent   |-> agent_order[task.i],
      inputs  |-> execution_inputs(op, st, task),
      context |-> build_agent_context(st, task.session_id) ]

(* a step of task t: the new dictionaries and task, and in `last` what the *)
(* step called: the executions it started, in order (the one it made       *)
(* inside the step, then the mock execution it is suspended in), the       *)
(* inputs of the first of them and the context built inside the step       *)
Commit(t, op, r, ran) ==
    /\ active_sessions' = r.st.as
    /\ session_handoffs' = r.st.sh
    /\ agent_retry_counts' = r.st.rc
    /\ tasks' = [tasks EXCEPT ![t] = r.task]
    /\ last' = [ op |-> op, session_id |-> tasks[t].session_id, task |-> t,
                 args |-> <<>>, ret |-> NoCall, handoff_ret |-> r.handoff_ret,
                 haf_ret |-> r.haf_ret,
                 started |-> (IF ran.agent = None THEN <<>> ELSE <<ran.agent>>)
                             \o (IF r.started = None THEN <<>> ELSE <<r.started>>),
                 result |-> <<>>,
                 inputs |-> IF ran.agent # None THEN ran.inputs
                            ELSE IF r.started = None THEN <<>>
                            ELSE execution_inputs(op, r.st, tasks[t]),
                 context |-> ran.context ]
    /\ UNCHANGED max_retries

NoLast == [ op |-> "init", session_id |-> None, task |-> 0, args |-> <<>>, ret |-> NoCall,
            handoff_ret |-> NoCall, haf_ret |-> NoCall, started |-> <<>>,
            result |-> <<>>, inputs |-> <<>>, context |-> {} ]

Init ==
    /\ active_sessions = EmptyDict
    /\ session_handoffs = EmptyDict
    /\ agent_retry_counts = EmptyDict
    /\ max_retries \in 0..MaxBudget
    /\ tasks = [t \in TaskIds |-> IdleTask]
    /\ last = NoLast

(* start_research_process cancelling the tasks that run for the same id *)
start_research_process_cancels(session_id, ticker, expertise_level) ==
    \E t \in TaskIds :
        /\ tasks[t].pc = "idle"
        /\ \A u \in TaskIds : u < t => tasks[u].pc # "idle"
        /\ active_sessions' = Put(active_sessions, session_id,
               ResearchStatus(t, ticker, "active", agent_order[1]))
        /\ session_handoffs' = Put(session_handoffs, session_id, <<>>)
        /\ agent_retry_counts' = Put(agent_retry_counts, session_id, EmptyDict)
        /\ tasks' = [u \in TaskIds |->
               IF u = t
               THEN [IdleTask EXCEPT !.pc = "scheduled", !.session_id = session_id,
                                     !.ticker = ticker, !.expertise_level = expertise_level]
               ELSE IF tasks[u].session_id = session_id /\ tasks[u].pc # "idle"
                    THEN Finished(tasks[u])
                    ELSE tasks[u]]
        /\ last' = [NoLast EXCEPT !.op = "start_research_process",
                                  !.session_id = session_id, !.task = t, !.ret = session_id]
        /\ UNCHANGED max_retries

(* start_research_process: the task created is the first idle one *)
start_research_process(session_id, ticker, expertise_level) ==
    \E t \in TaskIds :
        /\ tasks[t].pc = "idle"
        /\ \A u \in TaskIds : u < t => tasks[u].pc # "idle"
        /\ active_sessions' = Put(active_sessions, session_id,
               ResearchStatus(t, ticker, "active",
                              IF Len(agent_order) > 0 THEN agent_order[1] ELSE None))
        /\ session_handoffs' = Put(session_handoffs, session_id, <<>>)
        /\ agent_retry_counts' = Put(agent_retry_counts, session_id, EmptyDict)
        /\ tasks' = [tasks EXCEPT ![t] =
               [IdleTask EXCEPT !.pc = "scheduled", !.session_id = session_id,
                                !.ticker = ticker, !.expertise_level = expertise_level]]
        /\ last' = [NoLast EXCEPT !.op = "start_research_process",
                                  !.session_id = session_id, !.task = t, !.ret = session_id]
        /\ UNCHANGED max_retries

(* the created task runs: _execute_research_workflow up to its first       *)
(* suspension.  The first agent has an implementation: its execution is    *)
(* made inside this step, and the step goes on with what follows it, up to *)
(* the mock execution of the next agent, the backoff sleep or the return.  *)
execute_research_workflow(t, outcome) ==
    /\ tasks[t].pc = "scheduled"
    /\ LET r == loop_iteration(Store, tasks[t], 1, NoCall, NoCall) IN
       IF r.task.pc = "exec" /\ agent_order[r.task.i] \in real_agents
       THEN Commit(t, "execute_research_workflow",
                   IF outcome = Hang THEN hanging(r.st, r.task, NoCall)
                   ELSE agent_result(r.st, r.task, outcome),
                   Ran("execute_research_workflow", r.st, r.task))
       ELSE Commit(t, "execute_research_workflow", r, NoRun)

(* the mock execution awaited by the loop returns its AgentResult (or      *)
(* raises); the agents after the first have no implementation, so the      *)
(* execution the step starts next is a mock execution again                *)
agent_returns(t, outcome) ==
    /\ tasks[t].pc = "exec"
    /\ Commit(t, "agent_returns", agent_result(Store, tasks[t], outcome), NoRun)

(* the backoff sleep ends: _retry_agent.  The re-execution of an agent     *)
(* with an implementation is made inside this step, which goes on with     *)
(* what handle_agent_failure and the loop do with its result; the          *)
(* re-execution of another agent is a mock execution the task is suspended *)
(* in.                                                                     *)
retry_agent(t, outcome) ==
    /\ tasks[t].pc = "sleep"
    /\ LET task == [tasks[t] EXCEPT !.retries_run = tasks[t].retries_run + 1] IN
       IF ~Has(active_sessions, tasks[t].session_id)
       THEN Commit(t, "retry_agent", retry_failed(Store, tasks[t]), NoRun)
       ELSE IF agent_order[tasks[t].i] \in real_agents
       THEN Commit(t, "retry_agent",
                   IF outcome = Hang THEN hanging(Store, task, "pending")
                   ELSE retry_result(Store, task, outcome),
                   Ran("retry_agent", Store, tasks[t]))
       ELSE Commit(t, "retry_agent",
                   Outcome(Store, [task EXCEPT !.pc = "retry"], NoCall, "pending",
                           agent_order[tasks[t].i]),
                   NoRun)

(* the mock re-execution awaited by _retry_agent returns *)
retry_returns(t, outcome) ==
    /\ tasks[t].pc = "retry"
    /\ Commit(t, "retry_returns", retry_result(Store, tasks[t], outcome), NoRun)

(* cleanup_session leaving the retry counters of the session *)
cleanup_session_keeps_counters(session_id) ==
    /\ active_sessions' = Del(active_sessions, session_id)
    /\ session_handoffs' = Del(session_handoffs, session_id)
    /\ agent_retry_counts' = agent_retry_counts
    /\ tasks' = [t \in TaskIds |->
           IF tasks[t].session_id = session_id /\ tasks[t].pc \in Suspended
           THEN [tasks[t] EXCEPT !.abandoned = TRUE] ELSE tasks[t]]
    /\ last' = [NoLast EXCEPT !.op = "cleanup_session", !.session_id = session_id]
    /\ UNCHANGED max_retries

(* cleanup_session emptying the three dictionaries *)
cleanup_session_clears_all(session_id) ==
    /\ active_sessions' = EmptyDict
    /\ session_handoffs' = EmptyDict
    /\ agent_retry_counts' = EmptyDict
    /\ tasks' = [t \in TaskIds |->
           IF tasks[t].pc \in Suspended
           THEN [tasks[t] EXCEPT !.abandoned = TRUE] ELSE tasks[t]]
    /\ last' = [NoLast EXCEPT !.op = "cleanup_session", !.session_id = session_id]
    /\ UNCHANGED max_retries

(* cleanup_session *)
cleanup_session(session_id) ==
    /\ active_sessions' = Del(active_sessions, session_id)
    /\ session_handoffs' = Del(session_handoffs, session_id)
    /\ agent_retry_counts' = Del(agent_retry_counts, session_id)
    /\ tasks' = [t \in TaskIds |->
           IF tasks[t].session_id = session_id /\ tasks[t].pc \in Suspended
           THEN [tasks[t] EXCEPT !.abandoned = TRUE] ELSE tasks[t]]
    /\ last' = [NoLast EXCEPT !.op = "cleanup_session", !.session_id = session_id]
    /\ UNCHANGED max_retries

(* get_session_handoffs creating the empty list of a session that has none *)
get_session_handoffs_call_creates(session_id) ==
    /\ session_handoffs' = IF Has(session_handoffs, session_id) THEN session_handoffs
                           ELSE Put(session_handoffs, session_id, <<>>)
    /\ last' = [NoLast EXCEPT !.op = "get_session_handoffs", !.session_id = session_id,
                              !.result = get_session_handoffs(session_id)]
    /\ UNCHANGED <<active_sessions, agent_retry_counts, max_retries, tasks>>

(* a call of get_research_status: `last` holds what it returned *)
get_research_status_call(session_id) ==
    /\ last' = [NoLast EXCEPT !.op = "get_research_status", !.session_id = session_id,
                              !.result = <<get_research_status(session_id)>>]
    /\ UNCHANGED <<active_sessions, session_handoffs, agent_retry_counts, max_retries, tasks>>

(* a call of get_session_handoffs *)
get_session_handoffs_call(session_id) ==
    /\ last' = [NoLast EXCEPT !.op = "get_session_handoffs", !.session_id = session_id,
                              !.result = get_session_handoffs(session_id)]
    /\ UNCHANGED <<active_sessions, session_handoffs, agent_retry_counts, max_retries, tasks>>

(* a direct call of coordinate_agent_handoff, as the unit tests make *)
coordinate_agent_handoff_call(session_id, source_agent, target_agent, data) ==
    LET r == coordinate_agent_handoff(Store, session_id, source_agent, target_agent, data) IN
    /\ Has(session_handoffs, session_id) => Len(session_handoffs[session_id]) < MaxHandoffList
    /\ active_sessions' = r.st.as
    /\ session_handoffs' = r.st.sh
    /\ agent_retry_counts' = r.st.rc
    /\ last' = [NoLast EXCEPT !.op = "coordinate_agent_handoff", !.session_id = session_id,
                              !.args = <<source_agent, target_agent, data>>,
                              !.ret = BoolStr(r.ret), !.handoff_ret = BoolStr(r.ret)]
    /\ UNCHANGED <<max_retries, tasks>>

(* the index of an agent in the fixed order *)
agent_index(agent_name) == CHOOSE k \in 1..Len(agent_order) : agent_order[k] = agent_name

(* a direct call of handle_agent_failure, as the unit tests make, that     *)
(* returns without reaching the backoff sleep: the session is absent or    *)
(* the counter of the agent is at the budget (a call that sleeps is the    *)
(* frame of a workflow task)                                               *)
handle_agent_failure_call(session_id, agent_name, error) ==
    LET frame == [IdleTask EXCEPT !.session_id = session_id,
                                  !.i = agent_index(agent_name), !.error = error]
        r == handle_agent_failure(Store, frame)
    IN
    /\ r.haf_ret = "false"
    /\ active_sessions' = r.st.as
    /\ session_handoffs' = r.st.sh
    /\ agent_retry_counts' = r.st.rc
    /\ last' = [NoLast EXCEPT !.op = "handle_agent_failure", !.session_id = session_id,
                              !.args = <<agent_name, error>>,
                              !.ret = r.haf_ret, !.haf_ret = r.haf_ret]
    /\ UNCHANGED <<max_retries, tasks>>

Next ==
    \/ \E s \in Sessions, ticker \in Tickers, level \in ExpertiseLevels :
           start_research_process(s, ticker, level)
    \/ \E t \in TaskIds, outcome \in MessageOutcomes : execute_research_workflow(t, outcome)
    \/ \E t \in TaskIds, outcome \in MessageOutcomes : agent_returns(t, outcome)
    \/ \E t \in TaskIds, outcome \in MessageOutcomes : retry_agent(t, outcome)
    \/ \E t \in TaskIds, outcome \in MessageOutcomes : retry_returns(t, outcome)
    \/ \E s \in Sessions : cleanup_session(s)

Spec == Init /\ [][Next]_vars

(* The workflow of one start_research_process call whose session is not   *)
(* cleaned up, with the scheduling of asyncio: a task that is ready to run *)
(* is run, a backoff sleep ends, and every agent execution returns.        *)
NextLive ==
    \/ \E s \in Sessions, ticker \in Tickers, level \in ExpertiseLevels :
           /\ \A t \in TaskIds : tasks[t].pc = "idle"
           /\ start_research_process(s, ticker, level)
    \/ \E t \in TaskIds, outcome \in Outcomes : execute_research_workflow(t, outcome)
    \/ \E t \in TaskIds, outcome \in Outcomes : agent_returns(t, outcome)
    \/ \E t \in TaskIds, outcome \in Outcomes : retry_agent(t, outcome)
    \/ \E t \in TaskIds, outcome \in Outcomes : retry_returns(t, outcome)

Fairness ==
    \A t \in TaskIds :
        /\ WF_vars(\E outcome \in Outcomes : execute_research_workflow(t, outcome))
        /\ WF_vars(\E outcome \in Outcomes : agent_returns(t, outcome))
        /\ WF_vars(\E outcome \in Outcomes : retry_agent(t, outcome))
        /\ WF_vars(\E outcome \in Outcomes : retry_returns(t, outcome))

SpecLive == Init /\ [][NextLive]_vars /\ Fairness

(* Two sessions with distinct ids, each started once, sharing the          *)
(* coordinator and the event loop.                                         *)
MultiSessions == {"s1", "s2"}

start_once(s, ticker, level) ==
    /\ \A t \in TaskIds : tasks[t].session_id # s
    /\ start_research_process(s, ticker, level)

NextMulti ==
    \/ \E s \in MultiSessions, level \in ExpertiseLevels : start_once(s, "AAPL", level)
    \/ \E t \in TaskIds, outcome \in MessageOutcomes : execute_research_workflow(t, outcome)
    \/ \E t \in TaskIds, outcome \in MessageOutcomes : agent_returns(t, outcome)
    \/ \E t \in TaskIds, outcome \in MessageOutcomes : retry_agent(t, outcome)
    \/ \E t \in TaskIds, outcome \in MessageOutcomes : retry_returns(t, outcome)
    \/ \E s \in MultiSessions : cleanup_session(s)

SpecMulti == Init /\ [][NextMulti]_vars

(* Two sessions without cleanup, one of which may stall: the execution of  *)
(* the first agent of StalledSession, the agent that has an                *)
(* implementation, returns or never returns.  The execution is made inside *)
(* a step of the task, on the thread of the event loop (the client of      *)
(* ValuationAgent is synchronous): while it has not returned no callback   *)
(* of the loop runs, neither a call of the coordinator nor a step of       *)
(* another task.  The mock executions of both sessions return, every ready *)
(* task is run when the loop is free and every backoff sleep ends.         *)
StalledSession == "s1"

loop_is_free == \A u \in TaskIds : tasks[u].pc # "running"

StallOutcomes(t) ==
    IF tasks[t].session_id = StalledSession THEN {"ok", Hang} ELSE Outcomes

NextStall ==
    \/ \E s \in MultiSessions, level \in ExpertiseLevels :
           loop_is_free /\ start_once(s, "AAPL", level)
    \/ \E t \in TaskIds : \E outcome \in StallOutcomes(t) :
           loop_is_free /\ execute_research_workflow(t, outcome)
    \/ \E t \in TaskIds : \E outcome \in StallOutcomes(t) \ {Hang} :
           loop_is_free /\ agent_returns(t, outcome)
    \/ \E t \in TaskIds, outcome \in Outcomes : loop_is_free /\ retry_agent(t, outcome)
    \/ \E t \in TaskIds, outcome \in Outcomes : loop_is_free /\ retry_returns(t, outcome)

FairnessStall ==
    \A t \in TaskIds :
        /\ WF_vars(loop_is_free /\ \E outcome \in StallOutcomes(t) :
                                      execute_research_workflow(t, outcome))
        /\ WF_vars(loop_is_free /\ \E outcome \in StallOutcomes(t) \ {Hang} :
                                      agent_returns(t, outcome))
        /\ WF_vars(loop_is_free /\ \E outcome \in Outcomes : retry_agent(t, outcome))
        /\ WF_vars(loop_is_free /\ \E outcome \in Outcomes : retry_returns(t, outcome))

SpecStall == Init /\ [][NextStall]_vars /\ FairnessStall

(* The coordinator as its constructor makes it: max_retries is 3 with      *)
(* enable_retries (the default) and 0 without.                             *)
default_max_retries == 3

InitDefault ==
    /\ active_sessions = EmptyDict
    /\ session_handoffs = EmptyDict
    /\ agent_retry_counts = EmptyDict
    /\ max_retries \in {IF enable_retries THEN default_max_retries ELSE 0 :
                            enable_retries \in BOOLEAN}
    /\ tasks = [t \in TaskIds |-> IdleTask]
    /\ last = NoLast

SpecDefault == InitDefault /\ [][Next]_vars

(* The coordinator as the unit tests drive it: retries disabled, and       *)
(* coordinate_agent_handoff and handle_agent_failure called directly after *)
(* start_research_process, before the created task has run (no call of the *)
(* test yields to the event loop in between).                              *)
InitApi == Init /\ max_retries = 0

NextApi ==
    \/ \E s \in Sessions, ticker \in Tickers, level \in ExpertiseLevels :
           start_research_process(s, ticker, level)
    \/ \E s \in Sessions : cleanup_session(s)
    \/ \E s \in Sessions, source \in HandoffAgents, target \in HandoffAgents, data \in HandoffData :
           coordinate_agent_handoff_call(s, source, target, data)
    \/ \E s \in Sessions, agent_name \in HandoffAgents, error \in DirectErrors :
           handle_agent_failure_call(s, agent_name, error)
    \/ \E s \in Sessions : get_research_status_call(s)
    \/ \E s \in Sessions : get_session_handoffs_call(s)

SpecApi == InitApi /\ [][NextApi]_vars

----------------------------------------------------------------------------
(* Vocabulary of the properties *)

TaskOps == {"execute_research_workflow", "agent_returns", "retry_agent", "retry_returns"}
Terminal == {"completed", "failed"}

IsPrefix(p, q) == Len(p) <= Len(q) /\ \A k \in 1..Len(p) : p[k] = q[k]

(* the last step was a step of task t, and task t is the only workflow     *)
(* task ever created while the status object of its session is the one     *)
(* its own start_research_process call created                             *)
StepOf(t) == last'.task = t /\ last'.op \in TaskOps
Solo(t) ==
    /\ Has(active_sessions, tasks[t].session_id)
    /\ active_sessions[tasks[t].session_id].oid = t
    /\ \A u \in TaskIds \ {t} : tasks[u].pc = "idle"

(* the loop index of the agent a step of task t is about: the first agent   *)
(* when the task has not run yet                                           *)
IndexAt(t) == IF tasks[t].pc = "scheduled" THEN 1 ELSE tasks[t].i

(* this step starts the execution of an agent in the loop of task t *)
StartsExecution(t) == StepOf(t) /\ last'.started # <<>>

HasHandoff(list, source, target) ==
    \E k \in 1..Len(list) : list[k].source_agent = source /\ list[k].target_agent = target

----------------------------------------------------------------------------
(* C1: in every reachable state, each session's agents_completed is a      *)
(* prefix of the fixed agent order (hence duplicate-free, in order, with   *)
(* no agent skipped).                                                      *)
C1_CompletedIsPrefixOfOrder ==
    \A s \in DOMAIN active_sessions :
        IsPrefix(active_sessions[s].agents_completed, agent_order)

(* C2: a task starts its agents in the fixed order, and it starts the      *)
(* agent at position i+1 only in a state whose handoff list of the session *)
(* holds the record from agent i to agent i+1.                             *)
C2_ExecutionAfterHandoffCommitted ==
    [][\A t \in TaskIds :
        StartsExecution(t) =>
            LET before == IF tasks[t].pc = "scheduled" THEN 0 ELSE tasks[t].i
                pos(k) == IF k = 0 THEN before ELSE agent_index(last'.started[k])
            IN \A k \in 1..Len(last'.started) :
                 /\ pos(k) \in {pos(k - 1), pos(k - 1) + 1}
                 /\ pos(k) = pos(k - 1) => (k = 1 /\ last'.op = "retry_agent")
                 /\ (pos(k) = pos(k - 1) + 1 /\ pos(k) > 1) =>
                       /\ Has(session_handoffs', tasks[t].session_id)
                       /\ HasHandoff(session_handoffs'[tasks[t].session_id],
                                     agent_order[pos(k) - 1], agent_order[pos(k)])]_vars

(* C3: a workflow step in which coordinate_agent_handoff returned false    *)
(* stays at the same agent and enters handle_agent_failure for it (it ends *)
(* in the backoff sleep or with the task stopped); it does not go on to    *)
(* the next agent.                                                         *)
C3_FailedHandoffEntersFailureHandling ==
    [][\A t \in TaskIds :
        (StepOf(t) /\ last'.handoff_ret = "false") =>
            /\ tasks'[t].pc \in {"sleep", "done"}
            /\ ~(tasks'[t].pc = "exec" /\ tasks'[t].i = IndexAt(t) + 1)]_vars

(* C4: coordinate_agent_handoff returns false and leaves the status and    *)
(* the handoff list as they were whenever the file list is empty, the      *)
(* trimmed summary has at most 100 characters, the summary has more than   *)
(* 5000 characters or source equals target; every record of a handoff list *)
(* has a file, a trimmed summary of 101 to 5000 characters and distinct    *)
(* source and target.                                                      *)
C4_Invalid(source, target, data) ==
    \/ data.research_files = 0
    \/ data.context_summary.len - data.context_summary.pad <= 100
    \/ data.context_summary.len > 5000
    \/ source = target

C4_ValidRecord(h) ==
    /\ h.research_files > 0
    /\ h.context_summary.len - h.context_summary.pad > 100
    /\ h.context_summary.len - h.context_summary.pad <= 5000
    /\ h.source_agent # h.target_agent

C4_InvalidHandoffRejected ==
    [][/\ (last'.op = "coordinate_agent_handoff"
             /\ C4_Invalid(last'.args[1], last'.args[2], last'.args[3]))
          => /\ last'.ret = "false"
             /\ UNCHANGED <<active_sessions, session_handoffs, agent_retry_counts>>
       /\ \A s \in DOMAIN session_handoffs' :
            \A k \in 1..Len(session_handoffs'[s]) : C4_ValidRecord(session_handoffs'[s][k])]_vars

(* a call with a file, distinct agents and a summary of 150 characters of  *)
(* which only 90 remain after trimming was rejected for a session that has *)
(* a status and recorded handoffs                                          *)
C4_Witness ==
    /\ last.op = "coordinate_agent_handoff"
    /\ last.ret = "false"
    /\ last.args[1] # last.args[2]
    /\ last.args[3].research_files = 1
    /\ last.args[3].context_summary = [len |-> 150, pad |-> 60]
    /\ Has(active_sessions, last.session_id)
    /\ Has(session_handoffs, last.session_id)
    /\ Len(session_handoffs[last.session_id]) > 0

(* C5: in a session served by one workflow task, when an agent failed and  *)
(* every retry failed, handle_agent_failure returns false after exactly    *)
(* max_retries re-executions, with status failed, the agent in             *)
(* agents_failed and named by error_message; with max_retries = 0 this     *)
(* happens in the step of the first failure, without sleep or              *)
(* re-execution.                                                           *)
C5_RetryExhaustionFailsSession ==
    [][\A t \in TaskIds :
        (StepOf(t) /\ last'.haf_ret = "false" /\ Solo(t)) =>
            LET s == tasks[t].session_id
                a == agent_order[IndexAt(t)]
                reexecuted == IF last'.op = "retry_agent" /\ last'.started # <<>>
                              THEN 1 ELSE 0
            IN /\ tasks[t].retries_run + reexecuted = max_retries
               /\ agent_retry_counts'[s][a] = max_retries
               /\ max_retries = 0 => tasks[t].pc \in {"scheduled", "exec"}
               /\ Has(active_sessions', s)
               /\ active_sessions'[s].status = "failed"
               /\ Contains(active_sessions'[s].agents_failed, a)
               /\ Len(active_sessions'[s].error_message) >= 2
               /\ active_sessions'[s].error_message[2] = a
               /\ tasks'[t].pc = "done"]_vars

(* the historian failed, both retries of a budget of 2 failed, and the     *)
(* session of the only task is failed                                      *)
C5_Witness ==
    /\ last.op = "retry_returns"
    /\ last.haf_ret = "false"
    /\ max_retries = 2
    /\ tasks[2].pc = "idle"
    /\ Has(active_sessions, "s1")
    /\ active_sessions["s1"].status = "failed"
    /\ active_sessions["s1"].agents_failed = <<"historian_agent">>
    /\ agent_retry_counts["s1"]["historian_agent"] = 2

(* C6: in a session served by one workflow task, when a retry of a failed  *)
(* agent succeeds, handle_agent_failure returns true, the agent is not in  *)
(* agents_failed, the status is not failed, and the step continues exactly *)
(* as after a first-attempt success: it commits the handoff to the next    *)
(* agent and starts that agent (or completes the session after the last    *)
(* agent).                                                                 *)
C6_RecoveredAgentContinues ==
    [][\A t \in TaskIds :
        (StepOf(t) /\ tasks[t].pc \in {"sleep", "retry"} /\ last'.haf_ret = "true"
           /\ Solo(t)) =>
            LET s == tasks[t].session_id
                i == tasks[t].i
                first == after_agent(Store, [tasks[t] EXCEPT !.pc = "exec"], "true")
            IN /\ Has(active_sessions', s)
               /\ ~Contains(active_sessions'[s].agents_failed, agent_order[i])
               /\ active_sessions'[s].status = IF i < 4 THEN "active" ELSE "completed"
               /\ active_sessions' = first.st.as
               /\ session_handoffs' = first.st.sh
               /\ tasks'[t] = first.task
               /\ last'.handoff_ret = first.handoff_ret
               /\ (i < 4 /\ tasks[t].ticker = "AAPL") =>
                    /\ last'.handoff_ret = "true"
                    /\ session_handoffs'[s] = Append(session_handoffs[s],
                           AgentHandoff(agent_order[i], agent_order[i + 1],
                               handoff_data(agent_order[i], agent_order[i + 1], "AAPL")))
                    /\ active_sessions'[s].agents_completed
                         = Append(active_sessions[s].agents_completed, agent_order[i])
                    /\ active_sessions'[s].current_agent = agent_order[i + 1]
                    /\ tasks'[t].pc = "exec" /\ tasks'[t].i = i + 1]_vars

(* the strategic agent failed twice and succeeded on its second retry: its *)
(* handoff is committed and the historian is running                       *)
C6_Witness ==
    /\ last.op = "retry_returns"
    /\ last.haf_ret = "true"
    /\ last.handoff_ret = "true"
    /\ tasks[2].pc = "idle"
    /\ tasks[1].pc = "exec" /\ tasks[1].i = 3
    /\ agent_retry_counts["s1"]["strategic_agent"] = 2
    /\ active_sessions["s1"].status = "active"
    /\ active_sessions["s1"].agents_completed = <<"valuation_agent", "strategic_agent">>
    /\ active_sessions["s1"].agents_failed = <<>>

(* C7: once the status of a session is completed or failed, no field of    *)
(* that Research Status changes as long as the entry stays in              *)
(* active_sessions (the entry being removed by cleanup_session, or         *)
(* replaced by a new start_research_process, is not counted as a change).  *)
C7_TerminalStatusIsFrozen ==
    [][\A s \in DOMAIN active_sessions :
        ( /\ active_sessions[s].status \in Terminal
          /\ Has(active_sessions', s)
          /\ active_sessions'[s].oid = active_sessions[s].oid )
        => active_sessions'[s] = active_sessions[s]]_vars

(* C8: in every state, progress_percentage = 100 * len(agents_completed)/4 *)
C8_ProgressMatchesCompleted ==
    \A s \in DOMAIN active_sessions :
        active_sessions[s].progress_percentage
            = (100 * Len(active_sessions[s].agents_completed)) \div 4

(* the progress the list of completed agents stands for *)
C8_Expected(status) == (100 * Len(status.agents_completed)) \div 4

C8_InEveryState ==
    /\ \A s \in DOMAIN active_sessions :
          LET status == active_sessions[s] IN
          /\ Len(status.agents_completed) <= 3
          /\ ~Contains(status.agents_completed, "synthesis_agent")
          /\ status.completed_at = None => status.progress_percentage = C8_Expected(status)
          /\ status.completed_at # None
                => status.progress_percentage \in {100, C8_Expected(status)}
          /\ status.status = "completed" => status.completed_at # None
    /\ \A t \in TaskIds :
          (Solo(t) /\ active_sessions[tasks[t].session_id].status = "completed")
              => active_sessions[tasks[t].session_id].progress_percentage = 100

(* the step of task t that ends its workflow after the last agent has      *)
(* succeeded or was recovered, the session having its entry                *)
C8_CompletionStep(t) ==
    /\ StepOf(t)
    /\ tasks[t].i = Len(agent_order)
    /\ tasks'[t].pc = "done"
    /\ last'.haf_ret # "false"
    /\ Has(active_sessions', tasks[t].session_id)
    /\ active_sessions'[tasks[t].session_id].status # "failed"

(* C8 as amended: progress_percentage = 100 * len(agents_completed) / 4 in *)
(* every state in which the completion step has not run (completed_at is   *)
(* null); the completion step of a workflow task sets it to 100 although   *)
(* agents_completed then holds at most the three agents that handed off,   *)
(* never the last; afterwards it is 100 in a session run by a single       *)
(* workflow task, and with a second task on the session id it is 100 or,   *)
(* once that task has committed a handoff after the completion, again      *)
(* 100 * len(agents_completed) / 4.                                        *)
C8_ProgressMatchesCompletedUntilCompletion ==
    /\ []C8_InEveryState
    /\ [][\A t \in TaskIds :
            C8_CompletionStep(t) =>
                LET after == active_sessions'[tasks[t].session_id] IN
                /\ after.status = "completed"
                /\ after.completed_at # None
                /\ after.progress_percentage = 100
                /\ Len(after.agents_completed) <= 3]_vars

(* a completed session of a single task: three agents in agents_completed, *)
(* progress 100                                                            *)
C8_Witness ==
    /\ Has(active_sessions, "s1")
    /\ tasks[2].pc = "idle"
    /\ active_sessions["s1"].status = "completed"
    /\ active_sessions["s1"].progress_percentage = 100
    /\ active_sessions["s1"].agents_completed
         = <<"valuation_agent", "strategic_agent", "historian_agent">>

(* C9: while the Research Status of a session stays in active_sessions,    *)
(* progress_percentage never decreases from one state to the next, and it  *)
(* strictly increases in every step in which the workflow commits a        *)
(* handoff for the session.                                                *)
C9_ProgressNeverDecreases ==
    [][\A s \in DOMAIN active_sessions :
        ( /\ Has(active_sessions', s)
          /\ active_sessions'[s].oid = active_sessions[s].oid )
        => /\ active_sessions'[s].progress_percentage >= active_sessions[s].progress_percentage
           /\ (last'.op \in TaskOps /\ last'.session_id = s /\ last'.handoff_ret = "true")
                => active_sessions'[s].progress_percentage
                     > active_sessions[s].progress_percentage]_vars

(* C10: a task whose session was removed by cleanup_session while the task *)
(* was suspended starts no further agent execution and sets no status to   *)
(* completed or failed in any of its later steps.                          *)
C10_AbandonedWorkflowExits ==
    [][\A t \in TaskIds :
        (tasks[t].abandoned /\ StepOf(t)) =>
            /\ last'.started = <<>>
            /\ \A s \in DOMAIN active_sessions' :
                 active_sessions'[s].status \in Terminal
                   => Has(active_sessions, s)
                      /\ active_sessions[s].status = active_sessions'[s].status]_vars

(* C11: once cleanup_session removed a session whose agent execution was   *)
(* in flight, no step of the abandoned task creates a status entry, a      *)
(* handoff list or a retry counter for that session again.                 *)
C11_CleanedSessionStaysRemoved ==
    [][\A t \in TaskIds :
        LET s == tasks[t].session_id IN
        ( /\ StepOf(t) /\ tasks[t].abandoned
          /\ ~Has(active_sessions, s)
          /\ ~Has(session_handoffs, s)
          /\ ~Has(agent_retry_counts, s) )
        => /\ ~Has(active_sessions', s)
           /\ ~Has(session_handoffs', s)
           /\ ~Has(agent_retry_counts', s)]_vars

(* C12: a session started once, whose agent executions all return success *)
(* with handoff data that passes validation, eventually is completed with  *)
(* progress 100, current_agent null and completed_at set, and              *)
(* get_session_handoffs returns exactly the three records valuation ->     *)
(* strategic, strategic -> historian, historian -> synthesis.              *)
C12_Started == tasks[1].pc = "scheduled" /\ tasks[2].pc = "idle"

(* the run left the case of the claim: the session was started again, an   *)
(* execution did not return success (a retry counter exists, or the status *)
(* is failed), or the ticker makes the generated summaries too long        *)
C12_Excluded ==
    \/ tasks[2].pc # "idle"
    \/ ~Has(active_sessions, "s1")
    \/ agent_retry_counts["s1"] # EmptyDict
    \/ active_sessions["s1"].status = "failed"
    \/ active_sessions["s1"].ticker # "AAPL"

C12_Done ==
    /\ Has(active_sessions, "s1")
    /\ active_sessions["s1"].status = "completed"
    /\ active_sessions["s1"].progress_percentage = 100
    /\ active_sessions["s1"].current_agent = None
    /\ active_sessions["s1"].completed_at # None
    /\ Len(get_session_handoffs("s1")) = 3
    /\ \A k \in 1..3 :
          /\ get_session_handoffs("s1")[k].source_agent = agent_order[k]
          /\ get_session_handoffs("s1")[k].target_agent = agent_order[k + 1]
    /\ tasks[1].pc = "done"

C12_AllSuccessCompletes == C12_Started ~> (C12_Done \/ C12_Excluded)

(* the session of the only task, no agent of which failed, is completed    *)
(* with its three handoff records                                          *)
C12_Witness == C12_Done /\ ~C12_Excluded

(* C13: in every state where a session's status is completed,              *)
(* agents_completed is the whole fixed order, the last agent included.     *)
C13_CompletedListsWholeOrder ==
    \A s \in DOMAIN active_sessions :
        active_sessions[s].status = "completed"
            => active_sessions[s].agents_completed = agent_order

(* C13 as amended: in every state where a session's status is completed,   *)
(* agents_completed never holds the last agent (it hands off to nobody);   *)
(* in a session run by a single workflow task it lists the source agents   *)
(* of the session's handoff records, which is valuation, strategic,        *)
(* historian when the three handoffs were committed.                       *)
C13_CompletedListsAgentsThatHandedOff ==
    \A s \in DOMAIN active_sessions :
        active_sessions[s].status = "completed" =>
            LET status == active_sessions[s] IN
            /\ ~Contains(status.agents_completed, agent_order[4])
            /\ Len(status.agents_completed) <= 3
            /\ (tasks[2].pc = "idle") =>
                 /\ Len(status.agents_completed) = Len(get_session_handoffs(s))
                 /\ \A k \in 1..Len(status.agents_completed) :
                       status.agents_completed[k] = get_session_handoffs(s)[k].source_agent
                 /\ status.ticker = "AAPL" =>
                       status.agents_completed = SubSeq(agent_order, 1, 3)

(* a completed session of a single task with three handoff records and the *)
(* first three agents in agents_completed                                  *)
C13_Witness ==
    /\ Has(active_sessions, "s1")
    /\ tasks[2].pc = "idle"
    /\ active_sessions["s1"].status = "completed"
    /\ Len(get_session_handoffs("s1")) = 3
    /\ active_sessions["s1"].agents_completed = SubSeq(agent_order, 1, 3)

(* C14: in a session run by a single workflow task, when the agent at      *)
(* position k failed on its first execution and on every retry, the status *)
(* is failed, agents_completed is exactly the agents before k,             *)
(* agents_failed is exactly [k], the handoff list holds the k-1 records of *)
(* the agents before k and none with source k, the counter of k is the     *)
(* whole budget, and the task has returned (it executes no agent after k). *)
C14_FailedAtAgentStopsThere ==
    \A s \in DOMAIN active_sessions :
        LET status == active_sessions[s] IN
        ( /\ tasks[2].pc = "idle"
          /\ status.status = "failed"
          /\ status.error_message # <<exception_text>>
          /\ status.ticker = "AAPL" )
        => \E k \in 1..Len(agent_order) :
             /\ status.agents_failed = <<agent_order[k]>>
             /\ status.agents_completed = SubSeq(agent_order, 1, k - 1)
             /\ Len(get_session_handoffs(s)) = k - 1
             /\ \A j \in 1..(k - 1) :
                   /\ get_session_handoffs(s)[j].source_agent = agent_order[j]
                   /\ get_session_handoffs(s)[j].target_agent = agent_order[j + 1]
             /\ agent_retry_counts[s][agent_order[k]] = max_retries
             /\ status.error_message[2] = agent_order[k]
             /\ tasks[1].pc = "done"

(* the historian failed with its two retries after valuation and strategic *)
(* succeeded: two handoff records, two agents completed, the task returned *)
C14_Witness ==
    /\ Has(active_sessions, "s1")
    /\ tasks[2].pc = "idle" /\ tasks[1].pc = "done"
    /\ max_retries = 2
    /\ active_sessions["s1"].status = "failed"
    /\ active_sessions["s1"].ticker = "AAPL"
    /\ active_sessions["s1"].agents_failed = <<"historian_agent">>
    /\ active_sessions["s1"].agents_completed = <<"valuation_agent", "strategic_agent">>
    /\ Len(get_session_handoffs("s1")) = 2
    /\ DOMAIN agent_retry_counts["s1"] = {"historian_agent"}

(* C15: in every state of a session, current_agent is non-null exactly     *)
(* when the status is active; so it is null when the status is completed   *)
(* or failed.                                                              *)
C15_CurrentAgentIffActive ==
    \A s \in DOMAIN active_sessions :
        (active_sessions[s].current_agent # None) <=> (active_sessions[s].status = "active")

(* C16: the status of a session becomes completed only in the step in      *)
(* which a task of that session, having started every agent of the fixed   *)
(* order, leaves the loop after the last agent succeeded or was recovered; *)
(* it becomes failed only in a step in which handle_agent_failure returned *)
(* false with the agent's counter at the whole budget, or in the step of   *)
(* an exception escaping the loop, and then error_message is the exception *)
(* text and the task has returned without starting an agent.               *)
C16_BecomesCompleted(s) ==
    /\ Has(active_sessions', s)
    /\ active_sessions'[s].status = "completed"
    /\ ~Has(active_sessions, s) \/ active_sessions[s].status # "completed"

C16_BecomesFailed(s) ==
    /\ Has(active_sessions', s)
    /\ active_sessions'[s].status = "failed"
    /\ ~Has(active_sessions, s) \/ active_sessions[s].status # "failed"

C16_TerminalStatusHasItsCause ==
    [][\A s \in Sessions :
        /\ C16_BecomesCompleted(s) =>
              \E t \in TaskIds :
                  /\ StepOf(t) /\ tasks[t].session_id = s
                  /\ tasks[t].i = Len(agent_order)
                  /\ \/ last'.op = "agent_returns" /\ last'.haf_ret = NoCall
                     \/ last'.haf_ret = "true"
                  /\ tasks'[t].pc = "done"
                  /\ last'.started = <<>>
        /\ C16_BecomesFailed(s) =>
              \E t \in TaskIds :
                  /\ StepOf(t) /\ tasks[t].session_id = s
                  /\ tasks'[t].pc = "done"
                  /\ \/ /\ last'.haf_ret = "false"
                        /\ agent_retry_counts'[s][agent_order[IndexAt(t)]] = max_retries
                        /\ \E error \in {failure_error(o) : o \in Outcomes \ {"ok"}} :
                              active_sessions'[s].error_message
                                = error_text(agent_order[IndexAt(t)], error)
                        /\ \A k \in 1..Len(last'.started) :
                              last'.started[k] = agent_order[IndexAt(t)]
                     \/ /\ last'.op = "agent_returns"
                        /\ last'.haf_ret = NoCall
                        /\ agent_order[tasks[t].i] \notin real_agents
                        /\ active_sessions'[s].error_message = <<exception_text>>
                        /\ last'.started = <<>>]_vars

(* an exception escaped the execution of the historian: the session is     *)
(* failed with the exception text and the task has returned                *)
C16_Witness ==
    /\ last.op = "agent_returns"
    /\ last.haf_ret = NoCall
    /\ last.started = <<>>
    /\ tasks[last.task].pc = "done"
    /\ Has(active_sessions, "s1")
    /\ active_sessions["s1"].status = "failed"
    /\ active_sessions["s1"].error_message = <<exception_text>>
    /\ active_sessions["s1"].agents_completed = <<"valuation_agent", "strategic_agent">>

(* C17: every retry re-executes the agent with the session id, the ticker  *)
(* and the expertise level that start_research_process passed to the       *)
(* workflow of the task.                                                   *)
C17_RetryUsesOriginalInputs ==
    [][\A t \in TaskIds :
        (StepOf(t) /\ last'.op = "retry_agent" /\ last'.started # <<>>) =>
            last'.inputs = <<tasks[t].session_id, tasks[t].ticker, tasks[t].expertise_level>>]_vars

(* C18: a task enters the backoff sleep that precedes the k-th retry of an *)
(* agent in a session (the step that makes the agent's counter k, k from 1 *)
(* to the budget) with a delay of 2^(k-1) seconds: 1, 2, 4 with the budget *)
(* of 3 the coordinator has by default; a re-execution                     *)
(* is started only by the step that ends that sleep, once per sleep, and   *)
(* in a session run by a single task the k-th re-execution follows the     *)
(* k-th sleep.                                                             *)
C18_Counter(dict, s, a) == IF Has(dict, s) /\ Has(dict[s], a) THEN dict[s][a] ELSE 0

C18_BackoffBeforeEachRetry ==
    [][\A t \in TaskIds :
        LET s == tasks[t].session_id
            a == agent_order[IndexAt(t)]
            k == C18_Counter(agent_retry_counts', s, a)
            reexecutes == StepOf(t) /\ last'.op = "retry_agent" /\ last'.started # <<>>
        IN
        /\ (StepOf(t) /\ tasks'[t].pc = "sleep") =>
              /\ k \in 1..max_retries
              /\ k = C18_Counter(agent_retry_counts, s, a) + 1
              /\ tasks'[t].retry_count = k
              /\ tasks'[t].delay = 2 ^ (k - 1)
              /\ k = 1 => tasks'[t].delay = 1
              /\ k = 2 => tasks'[t].delay = 2
              /\ k = 3 => tasks'[t].delay = 4
              /\ \A j \in 1..Len(last'.started) : last'.started[j] = a
              /\ Len(last'.started) <= 1
        /\ reexecutes =>
              /\ tasks[t].pc = "sleep"
              /\ last'.started[1] = a
              /\ \A j \in 2..Len(last'.started) : last'.started[j] # a
              /\ Solo(t) => /\ tasks[t].retries_run + 1 = tasks[t].retry_count
                            /\ tasks[t].delay = 2 ^ tasks[t].retries_run
        /\ (tasks'[t].pc = "retry" /\ tasks[t].pc # "retry") =>
              /\ reexecutes
              /\ tasks'[t].retries_run = tasks[t].retries_run + 1]_vars

(* with the default budget of 3, the third retry of the strategic agent is *)
(* running after a sleep of 4 seconds, in the session of a single task     *)
C18_Witness ==
    /\ max_retries = default_max_retries
    /\ last.op = "retry_agent"
    /\ tasks[2].pc = "idle"
    /\ tasks[1].pc = "retry" /\ tasks[1].i = 2
    /\ tasks[1].retries_run = 3
    /\ tasks[1].delay = 4
    /\ agent_retry_counts["s1"]["strategic_agent"] = 3

(* C19: the context built for an agent X, on a first attempt or a retry,   *)
(* has keys only for agents strictly earlier than X in the fixed order.    *)
C19_Position(agent) == CHOOSE k \in 1..Len(agent_order) : agent_order[k] = agent

C19_ContextHoldsOnlyEarlierAgents ==
    [][\A t \in TaskIds :
        \A k \in 1..Len(last'.started) :
            (StepOf(t) /\ last'.started[k] \in real_agents) =>
                \A agent \in last'.context :
                    C19_Position(agent) < C19_Position(last'.started[k])]_vars

(* C20: a started session that is not cleaned up eventually has status     *)
(* completed or failed with its task returned, and its workflow starts at  *)
(* most 4 * (1 + max_retries) agent executions.                            *)
RECURSIVE C20_Sum(_, _)
C20_Sum(per, keys) ==
    IF keys = {} THEN 0
    ELSE LET a == CHOOSE x \in keys : TRUE IN per[a] + C20_Sum(per, keys \ {a})

(* the executions the task of session s has started: one first attempt per *)
(* agent up to the current one, and the retries the counters record (the   *)
(* one whose backoff sleep has not ended is not started yet)               *)
C20_Executions(s) ==
    tasks[1].i + C20_Sum(agent_retry_counts[s], DOMAIN agent_retry_counts[s])
               - (IF tasks[1].pc = "sleep" THEN 1 ELSE 0)

C20_Settled(s) ==
    /\ Has(active_sessions, s)
    /\ active_sessions[s].status \in Terminal
    /\ tasks[1].pc = "done"

C20_WorkflowTerminatesWithinBound ==
    /\ [](\A s \in DOMAIN active_sessions :
            /\ tasks[1].pc # "done" => C20_Executions(s) <= 4 * (1 + max_retries)
            /\ \A a \in DOMAIN agent_retry_counts[s] :
                  agent_retry_counts[s][a] <= max_retries)
    /\ \A s \in Sessions : Has(active_sessions, s) ~> C20_Settled(s)

(* every agent failed and used its two retries, the last retry of the last *)
(* agent succeeded: the session is completed after 12 executions           *)
C20_Witness ==
    /\ C20_Settled("s1")
    /\ max_retries = 2
    /\ active_sessions["s1"].status = "completed"
    /\ DOMAIN agent_retry_counts["s1"] = Agents
    /\ \A a \in Agents : agent_retry_counts["s1"][a] = 2

(* C21: with two sessions running at once, an agent execution of one       *)
(* session that never returns stalls only that session: the other session, *)
(* once started, eventually has status completed or failed and its task    *)
(* has returned, wherever the first session is stalled.                    *)
C21_OtherSessionSettles ==
    \A t \in TaskIds :
        (tasks[t].pc = "scheduled" /\ tasks[t].session_id # StalledSession)
            ~> ( /\ tasks[t].pc = "done"
                 /\ \E s \in MultiSessions \ {StalledSession} :
                       /\ Has(active_sessions, s)
                       /\ active_sessions[s].status \in Terminal )

(* C22: a coordinator operation or workflow step for one session leaves    *)
(* the Research Status, the handoff list and the retry counters of every   *)
(* other session as they were.                                             *)
C22_Entry(dict, s) == IF Has(dict, s) THEN <<dict[s]>> ELSE <<>>

C22_OtherSessionsUntouched ==
    [][\A s \in MultiSessions :
        last'.session_id # s =>
            /\ C22_Entry(active_sessions', s) = C22_Entry(active_sessions, s)
            /\ C22_Entry(session_handoffs', s) = C22_Entry(session_handoffs, s)
            /\ C22_Entry(agent_retry_counts', s) = C22_Entry(agent_retry_counts, s)]_vars

(* s1 was cleaned up while its agent was in flight, and s2 still has its   *)
(* status, a handoff record and a retry counter                            *)
C22_Witness ==
    /\ last.op = "cleanup_session" /\ last.session_id = "s1"
    /\ \E t \in TaskIds : tasks[t].session_id = "s1" /\ tasks[t].abandoned
    /\ ~Has(active_sessions, "s1")
    /\ Has(active_sessions, "s2")
    /\ Len(session_handoffs["s2"]) = 1
    /\ DOMAIN agent_retry_counts["s2"] = {"strategic_agent"}

(* C23: a coordinate_agent_handoff call that passes validation returns     *)
(* true, appends exactly one record (that of its arguments) to the         *)
(* session's handoff list, adds source to agents_completed only if it is   *)
(* not there, sets current_agent to target and progress_percentage to      *)
(* 100 * len(agents_completed) / 4, and changes nothing else.              *)
C23_ValidHandoffCommits ==
    [][(last'.op = "coordinate_agent_handoff"
          /\ ~C4_Invalid(last'.args[1], last'.args[2], last'.args[3])) =>
        LET s == last'.session_id
            source == last'.args[1]
            target == last'.args[2]
            data == last'.args[3]
            old == IF Has(session_handoffs, s) THEN session_handoffs[s] ELSE <<>>
        IN
        /\ last'.ret = "true"
        /\ Has(session_handoffs', s)
        /\ Len(session_handoffs'[s]) = Len(old) + 1
        /\ SubSeq(session_handoffs'[s], 1, Len(old)) = old
        /\ session_handoffs'[s][Len(old) + 1]
             = [ source_agent |-> source, target_agent |-> target,
                 research_files |-> data.research_files,
                 context_summary |-> data.context_summary,
                 confidence_metrics |-> data.confidence_metrics,
                 token_usage |-> data.token_usage ]
        /\ UNCHANGED <<agent_retry_counts, tasks>>
        /\ DOMAIN active_sessions' = DOMAIN active_sessions
        /\ Has(active_sessions, s) =>
             LET before == active_sessions[s]
                 after == active_sessions'[s]
             IN /\ after.agents_completed
                     = IF Contains(before.agents_completed, source)
                       THEN before.agents_completed
                       ELSE before.agents_completed \o <<source>>
                /\ after.current_agent = target
                /\ after.progress_percentage * 4 = 100 * Len(after.agents_completed)
                /\ after = [before EXCEPT
                               !.agents_completed = after.agents_completed,
                               !.current_agent = after.current_agent,
                               !.progress_percentage = after.progress_percentage]]_vars

(* C24: start_research_process(s, ticker, level) returns s and runs no     *)
(* agent: the task it creates has not run yet, and in the state right      *)
(* after the call the status of s is active with current_agent =           *)
(* valuation_agent, empty agents_completed and agents_failed, progress 0,  *)
(* no error and no completion time, the handoff list of s is empty and s   *)
(* has no retry counter.                                                   *)
C24_StartInitialisesSession ==
    [][last'.op = "start_research_process" =>
        LET s == last'.session_id
            t == last'.task
        IN
        /\ last'.ret = s
        /\ last'.started = <<>>
        /\ tasks[t].pc = "idle" /\ tasks'[t].pc = "scheduled"
        /\ \A u \in TaskIds \ {t} : tasks'[u] = tasks[u]
        /\ Has(active_sessions', s)
        /\ active_sessions'[s].status = "active"
        /\ active_sessions'[s].current_agent = "valuation_agent"
        /\ active_sessions'[s].current_agent = agent_order[1]
        /\ active_sessions'[s].agents_completed = <<>>
        /\ active_sessions'[s].agents_failed = <<>>
        /\ active_sessions'[s].progress_percentage = 0
        /\ active_sessions'[s].error_message = <<>>
        /\ active_sessions'[s].completed_at = None
        /\ active_sessions'[s].ticker = tasks'[t].ticker
        /\ session_handoffs'[s] = <<>>
        /\ DOMAIN agent_retry_counts'[s] = {}]_vars

(* the session was just started and its task has not run: status active at *)
(* the first agent, nothing completed, no handoff, no counter              *)
C24_Witness ==
    /\ last.op = "start_research_process"
    /\ last.ret = "s1"
    /\ tasks[1].pc = "scheduled"
    /\ tasks[2].pc = "idle"
    /\ active_sessions["s1"].status = "active"
    /\ active_sessions["s1"].current_agent = "valuation_agent"
    /\ session_handoffs["s1"] = <<>>
    /\ agent_retry_counts["s1"] = EmptyDict

(* C25: cleanup_session(s), for a session that exists, that was already    *)
(* cleaned up or that never existed, leaves no entry for s in the status   *)
(* map, the handoff map and the retry-counter map and touches no other     *)
(* entry; when s had no entry it changes none of the three maps.           *)
C25_CleanupIsTotalAndIdempotent ==
    [][last'.op = "cleanup_session" =>
        LET s == last'.session_id IN
        /\ ~Has(active_sessions', s)
        /\ ~Has(session_handoffs', s)
        /\ ~Has(agent_retry_counts', s)
        /\ active_sessions' = Del(active_sessions, s)
        /\ session_handoffs' = Del(session_handoffs, s)
        /\ agent_retry_counts' = Del(agent_retry_counts, s)
        /\ (~Has(active_sessions, s) /\ ~Has(session_handoffs, s)
               /\ ~Has(agent_retry_counts, s))
             => UNCHANGED <<active_sessions, session_handoffs, agent_retry_counts>>]_vars

(* cleanup_session was called for a session id that never existed *)
C25_Witness ==
    /\ last.op = "cleanup_session"
    /\ last.session_id = "s1"
    /\ \A t \in TaskIds : tasks[t].pc = "idle"
    /\ DOMAIN active_sessions = {}
    /\ DOMAIN session_handoffs = {}
    /\ DOMAIN agent_retry_counts = {}

(* C26: get_research_status and get_session_handoffs change nothing of the *)
(* coordinator; for a known session they return its current values, for an *)
(* unknown id the not-found marker and the empty list, and they create no  *)
(* entry.                                                                  *)
C26_ReadsArePure ==
    [][last'.op \in {"get_research_status", "get_session_handoffs"} =>
        LET s == last'.session_id IN
        /\ UNCHANGED <<active_sessions, session_handoffs, agent_retry_counts,
                       max_retries, tasks>>
        /\ (last'.op = "get_research_status" /\ ~Has(active_sessions, s)) =>
              last'.result = <<[error |-> "Session not found", session_id |-> s]>>
        /\ (last'.op = "get_research_status" /\ Has(active_sessions, s)) =>
              /\ Len(last'.result) = 1
              /\ last'.result[1].session_id = s
              /\ \A f \in {"ticker", "current_agent", "agents_completed", "agents_failed",
                            "progress_percentage", "status", "error_message", "completed_at"} :
                    last'.result[1][f] = active_sessions[s][f]
        /\ (last'.op = "get_session_handoffs" /\ ~Has(session_handoffs, s)) =>
              last'.result = <<>>
        /\ (last'.op = "get_session_handoffs" /\ Has(session_handoffs, s)) =>
              last'.result = session_handoffs[s]]_vars

(* get_session_handoffs returned the empty list for an id that has no      *)
(* entry in any map                                                        *)
C26_Witness ==
    /\ last.op = "get_session_handoffs"
    /\ last.result = <<>>
    /\ ~Has(active_sessions, "s1")
    /\ ~Has(session_handoffs, "s1")
    /\ ~Has(agent_retry_counts, "s1")

(* C27: start_research_process for a session id that has a status entry    *)
(* and a running workflow task replaces the status, the handoff list and   *)
(* the retry counters by fresh ones and leaves the running task as it is;  *)
(* a new task is created, and the older task goes on taking its steps for  *)
(* the same id.                                                            *)
C27_Running(t, s) == tasks[t].session_id = s /\ tasks[t].pc \notin {"idle", "done"}

C27_DuplicateStartKeepsOldTask ==
    [][\A t \in TaskIds :
        LET s == tasks[t].session_id IN
        /\ ( /\ last'.op = "start_research_process" /\ last'.session_id = s
             /\ Has(active_sessions, s) /\ C27_Running(t, s) )
           => /\ tasks'[t] = tasks[t]
              /\ last'.task # t
              /\ tasks'[last'.task].pc = "scheduled"
              /\ tasks'[last'.task].session_id = s
              /\ active_sessions'[s] = ResearchStatus(last'.task, tasks'[last'.task].ticker,
                                                      "active", agent_order[1])
              /\ session_handoffs'[s] = <<>>
              /\ agent_retry_counts'[s] = EmptyDict
        /\ ( /\ C27_Running(t, s) /\ tasks[t].pc # "scheduled"
             /\ Has(active_sessions, s) /\ active_sessions[s].oid # t
             /\ active_sessions[s].status = "active"
             /\ StepOf(t) /\ last'.op = "agent_returns" /\ last'.handoff_ret = "true" )
           => /\ active_sessions'[s].oid = active_sessions[s].oid
              /\ Contains(active_sessions'[s].agents_completed, agent_order[tasks[t].i])
              /\ Len(session_handoffs'[s]) = Len(session_handoffs[s]) + 1]_vars

(* after a second start for s1 both tasks are running agents and each has  *)
(* committed its handoff valuation -> strategic into the same list         *)
C27_Witness ==
    /\ tasks[1].pc = "exec" /\ tasks[2].pc = "exec"
    /\ tasks[1].session_id = "s1" /\ tasks[2].session_id = "s1"
    /\ tasks[1].i = 2 /\ tasks[2].i = 2
    /\ ~tasks[1].abandoned
    /\ active_sessions["s1"].oid = 2
    /\ Len(session_handoffs["s1"]) = 2
    /\ session_handoffs["s1"][1].source_agent = "valuation_agent"
    /\ session_handoffs["s1"][2].source_agent = "valuation_agent"

(* C28: every (session, agent) retry counter is between 0 and the budget,  *)
(* never decreases (nor disappears) while the session has its entries,     *)
(* counts the retries made for the agent (those run and the one whose      *)
(* backoff sleep is pending), and the executions of an agent running or    *)
(* made by the tasks that are at that agent never exceed 1 + budget.       *)
C28_At(t, s, a) ==
    /\ tasks[t].session_id = s
    /\ tasks[t].pc \in Suspended
    /\ agent_order[tasks[t].i] = a

C28_Executions(s, a) ==
    C20_Sum([t \in TaskIds |-> IF C28_At(t, s, a) THEN 1 + tasks[t].retries_run ELSE 0],
            TaskIds)

C28_Retries(s, a) ==
    C20_Sum([t \in TaskIds |->
                IF C28_At(t, s, a)
                THEN tasks[t].retries_run + (IF tasks[t].pc = "sleep" THEN 1 ELSE 0)
                ELSE 0],
            TaskIds)

C28_RetryCounterCountsRetries ==
    [][\A s \in DOMAIN active_sessions :
        /\ Has(agent_retry_counts, s)
        /\ \A a \in Agents : C28_Executions(s, a) <= 1 + max_retries
        /\ \A a \in DOMAIN agent_retry_counts[s] :
              /\ agent_retry_counts[s][a] \in 0..max_retries
              /\ (\E t \in TaskIds : C28_At(t, s, a) /\ tasks[t].pc \in {"sleep", "retry"})
                    => agent_retry_counts[s][a] = C28_Retries(s, a)
              /\ (Has(active_sessions', s) /\ Has(agent_retry_counts', s))
                    => /\ a \in DOMAIN agent_retry_counts'[s]
                       /\ agent_retry_counts'[s][a] >= agent_retry_counts[s][a]]_vars

(* C29: in every state of a session driven by its workflow, the handoff    *)
(* list is as long as agents_completed (at most 3), its i-th record goes   *)
(* from the i-th agent of the fixed order to the (i+1)-th, and while the   *)
(* session keeps its status the list only grows at its end.                *)
C29_HandoffListMirrorsCompleted ==
    [][\A s \in DOMAIN active_sessions :
        /\ Has(session_handoffs, s)
        /\ Len(session_handoffs[s]) = Len(active_sessions[s].agents_completed)
        /\ Len(session_handoffs[s]) <= 3
        /\ \A k \in 1..Len(session_handoffs[s]) :
              /\ session_handoffs[s][k].source_agent = agent_order[k]
              /\ session_handoffs[s][k].target_agent = agent_order[k + 1]
        /\ ( /\ Has(active_sessions', s) /\ Has(session_handoffs', s)
             /\ active_sessions'[s].oid = active_sessions[s].oid )
           => IsPrefix(session_handoffs[s], session_handoffs'[s])]_vars

(* C30: in every state of a session, agents_failed has no duplicate,       *)
(* shares no agent with agents_completed, and is non-empty only when the   *)
(* status is failed.                                                       *)
C30_FailedListOnlyWhenFailed ==
    \A s \in DOMAIN active_sessions :
        LET status == active_sessions[s] IN
        /\ \A j, k \in 1..Len(status.agents_failed) :
              status.agents_failed[j] = status.agents_failed[k] => j = k
        /\ \A a \in Agents :
              ~(Contains(status.agents_failed, a) /\ Contains(status.agents_completed, a))
        /\ status.agents_failed # <<>> => status.status = "failed"

====
